---- MODULE Spec2Model ----
(***************************************************************************)
(* A model of the trivia quiz server: the relational store of db/models.py *)
(* (users, questions, answers, scores, games, questionresults), the game   *)
(* session handlers of handlers/game.py and the login handlers of          *)
(* login_handler.py.  The web server runs one handler at a time on one     *)
(* sqlite connection, so every handler is one atomic action.               *)
(***************************************************************************)
EXTENDS Integers, Sequences, FiniteSets, TLC

(* ------------------------------ bounds -------------------------------- *)

\* rows the games table may hold
MaxGames == 2
\* largest n passed to Game.create by a direct caller
MaxN == 2
\* rows the users table may hold
MaxUsers == 2
\* rows the scores table may hold
MaxScores == 1
\* calls of Score.update_score
MaxTally == 1
MaxIndex == 2
MaxBank == 3
MaxAnswers == 2

\* the default of Game.create's parameter n
DefaultN == 5

\* the names typed into the username and email fields
Names == {"alice", "bob"}
Passwords == {"pw", "hunter2"}
Salts == {"s1", "s2"}
\* request.get_field gives None for a field the form did not send
None == "<None>"
Empty == ""
Categories == {1, 2}
Difficulties == {0, 1}

VARIABLES
    users,            \* table users: user_id (the index), username, password, salt, email
    questions,        \* table questions, by question_id
    answers,          \* table answers, by answer_id
    scores,           \* table scores: rows (user_id, category_id, num_answered, num_correct)
    games,            \* table games, by game_id
    questionresults,  \* table questionresults, in insertion order
    cookie_user,      \* the browser's user_id cookie (0: none)
    cookie_game,      \* the browser's game_id cookie (0: none)
    now,              \* time.time()
    created,          \* history: the Game object each Game.create returned, and its n
    handled,          \* history: submit requests handled per game
    tally,            \* history: calls of Score.update_score
    last              \* the last request or call, with its response

vars == <<users, questions, answers, scores, games, questionresults,
          cookie_user, cookie_game, now, created, handled, tally, last>>

(* --------------------------- text helpers ----------------------------- *)

\* the character ',' in a string of digits (a string is a sequence of characters,
\* a digit character its value)
Comma == -1

RECURSIVE StrOfInt(_)
\* str(n) for n >= 0
StrOfInt(n) == IF n < 10 THEN <<n>> ELSE StrOfInt(n \div 10) \o <<n % 10>>

RECURSIVE IntOfStr(_)
\* int(s) for a non-empty string of digits
IntOfStr(s) ==
    IF Len(s) = 1 THEN s[1]
    ELSE 10 * IntOfStr(SubSeq(s, 1, Len(s) - 1)) + s[Len(s)]

RECURSIVE JoinComma(_)
\* ','.join(map(str, ids))
JoinComma(ids) ==
    IF ids = <<>> THEN <<>>
    ELSE IF Len(ids) = 1 THEN StrOfInt(ids[1])
    ELSE StrOfInt(ids[1]) \o <<Comma>> \o JoinComma(Tail(ids))

RECURSIVE SplitComma(_)
\* s.split(',')
SplitComma(s) ==
    IF \A i \in 1..Len(s) : s[i] # Comma THEN <<s>>
    ELSE LET i == CHOOSE j \in 1..Len(s) :
                     s[j] = Comma /\ \A k \in 1..(j - 1) : s[k] # Comma
         IN  <<SubSeq(s, 1, i - 1)>> \o SplitComma(SubSeq(s, i + 1, Len(s)))

\* [int(x) for x in question_ids.split(',')]
ParseIds(s) == LET parts == SplitComma(s) IN [i \in 1..Len(parts) |-> IntOfStr(parts[i])]

\* the orders random.shuffle can leave a list of distinct ids in
Shuffles(ids) ==
    {p \in [1..Len(ids) -> {ids[i] : i \in 1..Len(ids)}] :
        \A i, j \in 1..Len(ids) : i # j => p[i] # p[j]}

\* a list slice xs[:n], n >= 0
Slice(xs, n) == SubSeq(xs, 1, IF n < Len(xs) THEN n ELSE Len(xs))

(* ------------------------------ hasher -------------------------------- *)

\* hasher.hash(password, salt): a digest that differs for different inputs
Hash(password, salt) == <<"digest", password, salt>>

(* --------------------------- the question bank ------------------------ *)

\* Question.create: the row INSERT INTO questions VALUES(NULL,?,0,0,?,0)
QuestionCreate(question_id, category_id) ==
    [question_id |-> question_id, questions_answered |-> 0, questions_correct |-> 0,
     category |-> category_id, difficulty |-> 0]

\* Category.create_question: the answer rows of a question whose answers get
\* the ids first..first+count-1; only the first is flagged correct
CreateQuestionAnswers(question_id, first, count) ==
    [i \in 1..count |->
        [answer_id |-> first + i - 1, question_id |-> question_id,
         correct |-> IF i - 1 = 0 THEN 1 ELSE 0]]

\* the bank: two questions with two answers each in category 1, one question
\* with a single answer in category 2
BankQuestions == <<QuestionCreate(1, 1), QuestionCreate(2, 1), QuestionCreate(3, 2)>>
BankAnswers ==
    CreateQuestionAnswers(1, 1, 2) \o CreateQuestionAnswers(2, 3, 2)
        \o CreateQuestionAnswers(3, 5, 1)

\* dummy_data.py: the difficulties of its csv rows, and the number of
\* 'Wrong Answer' columns of a row
LoaderDifficulties == {0, 1, 2}
WrongAnswers == 3

\* dummy_data.py: the questions row of a csv row
LoadQuestionRow(question_count, category_id, difficulty) ==
    [question_id |-> question_count, questions_answered |-> 0, questions_correct |-> 0,
     category |-> category_id, difficulty |-> difficulty]

\* dummy_data.py: the answers rows of a csv row, 'Correct Answer' first and the
\* 'Wrong Answer' columns after it, each inserted with VALUES(?, ?, 1, ?)
LoadAnswerRows(question_count, answer_count) ==
    <<[answer_id |-> answer_count, question_id |-> question_count, correct |-> 1]>>
    \o [i \in 1..WrongAnswers |->
          [answer_id |-> answer_count + i, question_id |-> question_count,
           correct |-> 1]]

\* dummy_data.py, one turn of its loop over the csv rows, as the loader's
\* connection sees the tables; the script runs on the empty store
load_question(category_id, difficulty) ==
    /\ last.op \in {"none", "load"}
    /\ questions' = Append(questions,
                           LoadQuestionRow(Len(questions) + 1, category_id, difficulty))
    /\ answers' = answers \o LoadAnswerRows(Len(questions) + 1, Len(answers) + 1)
    /\ last' = [op |-> "load", outcome |-> "row", question_id |-> Len(questions) + 1]
    /\ UNCHANGED <<users, scores, games, questionresults, cookie_user, cookie_game,
                   now, created, handled, tally>>

\* dummy_data.py after its loop: add_user calls new_salt(), a name the script
\* never defines; the NameError ends the script before conn.commit() and the
\* store drops the rows of the open transaction
load_add_user ==
    /\ last.op \in {"none", "load"}
    /\ questions' = <<>>
    /\ answers' = <<>>
    /\ last' = [op |-> "loader", outcome |-> "NameError", question_id |-> 0]
    /\ UNCHANGED <<users, scores, games, questionresults, cookie_user, cookie_game,
                   now, created, handled, tally>>

\* category.create_question(question, answers) with a list of count answers,
\* called when no loader is running
create_question(category_id, count) ==
    /\ last.op # "load"
    /\ questions' = Append(questions, QuestionCreate(Len(questions) + 1, category_id))
    /\ answers' = answers \o CreateQuestionAnswers(Len(questions) + 1,
                                                    Len(answers) + 1, count)
    /\ last' = [op |-> "create_question", outcome |-> "question",
                question_id |-> Len(questions) + 1]
    /\ UNCHANGED <<users, scores, games, questionresults, cookie_user, cookie_game,
                   now, created, handled, tally>>

(* ------------------------------- Model -------------------------------- *)

\* Question.find(question_id=q): the row, or None
QuestionExists(q) == q \in DOMAIN questions
\* Answer.find(answer_id=a): the row, or None
AnswerExists(a) == a \in DOMAIN answers

\* Game.__init__ applied to a row of games, positionally (cls(*row))
GameOfRow(row) ==
    [id |-> row.c1, user_id |-> row.c2,
     question_ids |-> ParseIds(row.c3),
     question_index |-> row.c4, time_started |-> row.c5, time_completed |-> row.c6,
     difficulty |-> row.c7, category_id |-> row.c8, score |-> row.c9]

\* Game.find(game_id=g) for a g the table holds
GameFind(g) == GameOfRow(games[g])

\* Game.is_end
IsEnd(game) == game.question_index >= Len(game.question_ids)

\* the ids SELECT question_id FROM questions WHERE category = ? AND difficulty = ?
\* yields, in rowid order
RECURSIVE MatchingFrom(_, _, _)
MatchingFrom(q, category_id, difficulty) ==
    IF q > Len(questions) THEN <<>>
    ELSE (IF questions[q].category = category_id /\ questions[q].difficulty = difficulty
          THEN <<q>> ELSE <<>>) \o MatchingFrom(q + 1, category_id, difficulty)
\* the SELECT of Game.create without its AND difficulty = ?
MatchingAnyDifficulty(category_id, difficulty) ==
    SelectSeq([q \in 1..Len(questions) |-> q],
              LAMBDA q : questions[q].category = category_id)

Matching(category_id, difficulty) == MatchingFrom(1, category_id, difficulty)

\* the row Game.create inserts: VALUES(NULL, user_id, ids, 0, curr_time, 0,
\* category_id, difficulty, 0), the nine columns in the table's order
GameRow(game_id, user_id, question_ids, curr_time, category_id, difficulty) ==
    [c1 |-> game_id, c2 |-> user_id, c3 |-> JoinComma(question_ids), c4 |-> 0,
     c5 |-> curr_time, c6 |-> 0, c7 |-> category_id, c8 |-> difficulty, c9 |-> 0]

\* the Game object Game.create returns
GameNew(game_id, user_id, question_ids, curr_time, category_id, difficulty) ==
    [id |-> game_id, user_id |-> user_id, question_ids |-> question_ids,
     question_index |-> 0, time_started |-> curr_time, time_completed |-> 0,
     difficulty |-> difficulty, category_id |-> category_id, score |-> 0]

\* Game.create without its slice
CreateSliceAll(question_ids, n) == question_ids

\* question_ids[:n] of Game.create
CreateSlice(question_ids, n) == Slice(question_ids, n)

\* Game.create returns None: no question matches
GameCreateNone(category_id, difficulty) == Matching(category_id, difficulty) = <<>>

\* Game.create(user_id, category_id, difficulty, n) when questions match, the
\* shuffle leaving them in order: the row inserted and the object returned
GameCreate(user_id, category_id, difficulty, n, order) ==
    LET question_ids == CreateSlice(order, n)
        game_id == Len(games) + 1
    IN  /\ games' = Append(games,
                       GameRow(game_id, user_id, question_ids, now, category_id, difficulty))
        /\ created' = Append(created,
                         [game |-> GameNew(game_id, user_id, question_ids, now,
                                           category_id, difficulty),
                          n |-> n])
        /\ handled' = Append(handled, 0)
        /\ now' = now + 1

\* whether Game.submit_answer records the answer: the question and the answer
\* both exist and the answer is an answer of that question
SubmitRecorded(question_id, answer_id) ==
    /\ QuestionExists(question_id)
    /\ AnswerExists(answer_id)
    /\ questions[question_id].question_id = answers[answer_id].question_id

\* the value Game.submit_answer returns
SubmitCorrect(question_id, answer_id) ==
    IF SubmitRecorded(question_id, answer_id) /\ answers[answer_id].correct # 0
    THEN 1 ELSE 0

\* QuestionResult.create with the question and the answer id in each other's place
QuestionResultCreateSwapped(game_id, question_id, user_id, answer_id, correct) ==
    [game_id |-> game_id, question_id |-> answer_id, user_id |-> user_id,
     answer_id |-> question_id, correct |-> correct]

\* the row QuestionResult.create inserts
QuestionResultCreate(game_id, question_id, user_id, answer_id, correct) ==
    [game_id |-> game_id, question_id |-> question_id, user_id |-> user_id,
     answer_id |-> answer_id, correct |-> correct]

\* the UPDATE of score without its WHERE: every game scores
ScoreUpdateRowsNoWhere(rows, game_id) ==
    [g \in 1..Len(rows) |-> [rows[g] EXCEPT !.c9 = @ + 1]]

\* UPDATE games SET score = score + 1 WHERE game_id = ?
ScoreUpdateRows(rows, game_id) == [rows EXCEPT ![game_id].c9 = @ + 1]

\* the UPDATE of questions counting every answer as a correct one
QuestionCountersUpdateAllCorrect(rows, question_id, correct) ==
    [rows EXCEPT ![question_id].questions_answered = @ + 1,
                 ![question_id].questions_correct = @ + 1]

\* UPDATE questions SET questions_answered = questions_answered + 1,
\* questions_correct = questions_correct + ? WHERE question_id = ?
QuestionCountersUpdate(rows, question_id, correct) ==
    [rows EXCEPT ![question_id].questions_answered = @ + 1,
                 ![question_id].questions_correct = @ + correct]

\* the UPDATE of question_index without its WHERE: every game advances
NextquestionRowsNoWhere(rows, game_id) ==
    [g \in 1..Len(rows) |-> [rows[g] EXCEPT !.c4 = @ + 1]]

\* UPDATE games SET question_index = question_index + 1 WHERE game_id = ?
NextquestionRows(rows, game_id) == [rows EXCEPT ![game_id].c4 = @ + 1]

\* the Game object after submit_answer and game_nextquestion ran on it
GameAfterSubmit(game, question_id, answer_id) ==
    [game EXCEPT !.score = @ + SubmitCorrect(question_id, answer_id),
                 !.question_index = @ + 1]

\* Game.submit_answer(question_id, answer_id) followed by
\* Game.game_nextquestion(), on the object game
SubmitAndAdvance(game, question_id, answer_id) ==
    LET correct == SubmitCorrect(question_id, answer_id)
        recorded == SubmitRecorded(question_id, answer_id)
        scored == IF recorded /\ correct = 1 THEN ScoreUpdateRows(games, game.id)
                  ELSE games
    IN  /\ games' = NextquestionRows(scored, game.id)
        /\ questionresults' =
              IF recorded
              THEN Append(questionresults,
                          QuestionResultCreate(game.id, question_id, game.user_id,
                                               answer_id, correct))
              ELSE questionresults
        /\ questions' =
              IF recorded THEN QuestionCountersUpdate(questions, question_id, correct)
              ELSE questions

(* ---------------------------- handlers/game --------------------------- *)

NoSubmit ==
    [game_id |-> 0, question_id |-> 0, answer_id |-> 0, correct |-> 0, score |-> 0,
     question_index |-> 0, redirect |-> "", redirect_index |-> 0]

\* submit_question_handler(request, answer_id); answer_id is the [0-9]+ of the
\* URL, never empty, and the store compares it as the number it spells
submit_question_handler(answer_id) ==
    IF cookie_game # 0 /\ cookie_user # 0
    THEN LET game == GameFind(cookie_game) IN
         IF game.question_index >= Len(game.question_ids)
         THEN \* game.question_ids[game.question_index] raises IndexError
              /\ last' = [NoSubmit EXCEPT !.game_id = game.id] @@
                         [op |-> "submit", outcome |-> "IndexError"]
              /\ UNCHANGED <<users, questions, answers, scores, games, questionresults,
                             cookie_user, cookie_game, now, created, handled, tally>>
         ELSE LET question_id == game.question_ids[game.question_index + 1]
                  after == GameAfterSubmit(game, question_id, answer_id)
                  ended == after.question_index >= Len(after.question_ids)
              IN  /\ SubmitAndAdvance(game, question_id, answer_id)
                  /\ handled' = [handled EXCEPT ![game.id] = @ + 1]
                  /\ last' = [op |-> "submit", outcome |-> "handled",
                              game_id |-> game.id, question_id |-> question_id,
                              answer_id |-> answer_id,
                              correct |-> SubmitCorrect(question_id, answer_id),
                              score |-> after.score,
                              question_index |-> after.question_index,
                              redirect |-> IF ended THEN "/post_game" ELSE "/game/",
                              redirect_index |-> IF ended THEN 0
                                                 ELSE after.question_index]
                  /\ UNCHANGED <<users, answers, scores, cookie_user, cookie_game,
                                 now, created, tally>>
    ELSE /\ last' = NoSubmit @@ [op |-> "submit", outcome |-> "ignored"]
         /\ UNCHANGED <<users, questions, answers, scores, games, questionresults,
                        cookie_user, cookie_game, now, created, handled, tally>>

\* what get_question_handler leaves blank in its answer
NoPage == [game_id |-> 0, question_index |-> 0, question_id |-> 0, message |-> Empty]

\* get_question_handler(request, question_index); question_index is the
\* [0-9]+ of the URL.  It writes a page or an error page and changes no table
get_question_handler(question_index) ==
    /\ last' =
          IF cookie_user # 0 /\ cookie_user \notin 1..Len(users)
          THEN \* User.find(user_id=u_id) is None: None.username
               NoPage @@ [op |-> "get_question", outcome |-> "AttributeError"]
          ELSE IF cookie_game = 0
          THEN [NoPage EXCEPT !.question_index = question_index,
                              !.message = "You aren't in a game!"] @@
               [op |-> "get_question", outcome |-> "error"]
          ELSE IF cookie_game \notin 1..Len(games)
          THEN [NoPage EXCEPT !.game_id = cookie_game,
                              !.question_index = question_index,
                              !.message = "Could not handle that question!"] @@
               [op |-> "get_question", outcome |-> "error"]
          ELSE LET game == GameFind(cookie_game) IN
               IF question_index >= Len(game.question_ids)
               THEN \* self.question_ids[index] raises IndexError
                    [NoPage EXCEPT !.game_id = cookie_game,
                                   !.question_index = question_index] @@
                    [op |-> "get_question", outcome |-> "IndexError"]
               ELSE LET question_id == game.question_ids[question_index + 1] IN
                    IF ~QuestionExists(question_id)
                    THEN [NoPage EXCEPT !.game_id = cookie_game,
                                        !.question_index = question_index,
                                        !.question_id = question_id,
                                        !.message = "That question doesn't exist!"] @@
                         [op |-> "get_question", outcome |-> "error"]
                    ELSE [NoPage EXCEPT !.game_id = cookie_game,
                                        !.question_index = question_index,
                                        !.question_id = question_id] @@
                         [op |-> "get_question", outcome |-> "page"]
    /\ UNCHANGED <<users, questions, answers, scores, games, questionresults,
                   cookie_user, cookie_game, now, created, handled, tally>>

\* game_handler(request); has_fields: the request has both fields category_id
\* and difficulty.  Game.create runs with its default n
game_handler(has_fields, category_id, difficulty, order) ==
    IF cookie_user # 0 /\ has_fields
    THEN IF GameCreateNone(category_id, difficulty)
         THEN \* 'There are no questions in this category and difficulty. :('
              /\ last' = [op |-> "game_create", outcome |-> "no questions",
                          game_id |-> 0, category_id |-> category_id,
                          difficulty |-> difficulty]
              /\ UNCHANGED <<users, questions, answers, scores, games, questionresults,
                             cookie_user, cookie_game, now, created, handled, tally>>
         ELSE /\ GameCreate(cookie_user, category_id, difficulty, DefaultN, order)
              /\ cookie_game' = Len(games) + 1
              /\ last' = [op |-> "game_create", outcome |-> "/game/0",
                          game_id |-> Len(games) + 1, category_id |-> category_id,
                          difficulty |-> difficulty]
              /\ UNCHANGED <<users, questions, answers, scores, questionresults,
                             cookie_user, tally>>
    ELSE /\ last' = [op |-> "game_create", outcome |-> "/login", game_id |-> 0,
                     category_id |-> 0, difficulty |-> 0]
         /\ UNCHANGED <<users, questions, answers, scores, games, questionresults,
                        cookie_user, cookie_game, now, created, handled, tally>>

\* a direct call Game.create(user_id, category_id, difficulty, n)
game_create_call(user_id, category_id, difficulty, n, order) ==
    IF GameCreateNone(category_id, difficulty)
    THEN /\ last' = [op |-> "Game.create", outcome |-> "None", game_id |-> 0,
                     category_id |-> category_id, difficulty |-> difficulty]
         /\ UNCHANGED <<users, questions, answers, scores, games, questionresults,
                        cookie_user, cookie_game, now, created, handled, tally>>
    ELSE /\ GameCreate(user_id, category_id, difficulty, n, order)
         /\ last' = [op |-> "Game.create", outcome |-> "game",
                     game_id |-> Len(games) + 1, category_id |-> category_id,
                     difficulty |-> difficulty]
         /\ UNCHANGED <<users, questions, answers, scores, questionresults,
                        cookie_user, cookie_game, tally>>

(* -------------------------------- User -------------------------------- *)

\* the first of the matching rows (fetchone), 0 when no row matches
FirstOf(S) == IF S = {} THEN 0 ELSE CHOOSE u \in S : \A v \in S : u <= v

\* User.find(username=x): the user's id, 0 for None
FindUsername(x) == FirstOf({u \in 1..Len(users) : users[u].username = x})
\* User.find(email=x): the user's id, 0 for None; email = NULL matches no row
FindEmail(x) == FirstOf({u \in 1..Len(users) : users[u].email = x /\ x # None})

\* user.check_login(password) of the user with id u
CheckLogin(u, password) == Hash(password, users[u].salt) = users[u].password

\* the row User.create inserts, hasher.new_salt() giving salt
UserCreate(username, password, email, salt) ==
    [username |-> username, password |-> Hash(password, salt), salt |-> salt,
     email |-> email]

\* set_password writing the new digest beside the salt of the old one
SetPasswordRowsOldSalt(u, new_password, salt) ==
    [users EXCEPT ![u].password = Hash(new_password, salt)]

\* the users table after user.set_password(new_password) of user u,
\* hasher.new_salt() giving salt
SetPasswordRows(u, new_password, salt) ==
    [users EXCEPT ![u].password = Hash(new_password, salt), ![u].salt = salt]

\* a call user.set_password(new_password)
set_password(u, new_password, salt) ==
    /\ users' = SetPasswordRows(u, new_password, salt)
    /\ last' = [op |-> "set_password", user_id |-> u, password |-> new_password,
                accepted |-> {q \in Passwords : CheckLogin(u, q)}]
    /\ UNCHANGED <<questions, answers, scores, games, questionresults, cookie_user,
                   cookie_game, now, created, handled, tally>>

(* --------------------------- login_handler ---------------------------- *)

\* the module's global error, which login_handler renders
error == ""

\* login_handler(request): the error_message of the page it renders
LoginPageError == error

\* login_start(response, user_id): the browser's user_id cookie after the
\* response.  get_secure_cookie reads the cookie the request came with;
\* clear_cookie and set_secure_cookie only write the response's cookies
LoginStart(user_id) == IF cookie_user # 0 THEN 0 ELSE user_id

\* the value login_handler_post assigns to its variable error on a failed attempt
LoginError(username_email) ==
    LET by_name == FindUsername(username_email)
        by_email == FindEmail(username_email)
    IN  IF by_name # 0 THEN "Password/Username is incorrect"
        ELSE IF by_email # 0 THEN "Password/Username is incorrect"
        ELSE "User doesn't exist"

\* the user login_handler_post logs in, 0 for a failed attempt
LoginUser(username_email, password) ==
    LET by_name == FindUsername(username_email)
        by_email == FindEmail(username_email)
    IN  IF by_name # 0
        THEN (IF CheckLogin(by_name, password) THEN by_name ELSE 0)
        ELSE IF by_email # 0
        THEN (IF CheckLogin(by_email, password) THEN by_email ELSE 0)
        ELSE 0

NoLogin == [username |-> "", password |-> "", user_id |-> 0, error |-> "",
            error_message |-> "", cookie_sent |-> 0]

\* login_handler_post(request) with the fields username and password
login_handler_post(username_email, password) ==
    LET req == [NoLogin EXCEPT !.username = username_email, !.password = password,
                               !.cookie_sent = cookie_user] @@ [op |-> "login_post"]
    IN
    /\ IF username_email = None \/ username_email = Empty
          \/ password = None \/ password = Empty
       THEN /\ last' = req @@ [outcome |-> "/"]
            /\ cookie_user' = cookie_user
       ELSE IF LoginUser(username_email, password) # 0
       THEN /\ cookie_user' = LoginStart(LoginUser(username_email, password))
            /\ last' = [req EXCEPT !.user_id = LoginUser(username_email, password)]
                          @@ [outcome |-> "login_start"]
       ELSE /\ cookie_user' = cookie_user
            /\ last' = [req EXCEPT !.error = LoginError(username_email),
                                   !.error_message = LoginPageError]
                          @@ [outcome |-> "login page"]
    /\ UNCHANGED <<users, questions, answers, scores, games, questionresults,
                   cookie_game, now, created, handled, tally>>

\* signup_handler_post(request) with the fields username, password and email
signup_handler_post(username, password, email, salt) ==
    /\ IF username = None \/ username = Empty \/ password = None \/ password = Empty
       THEN users' = users
       ELSE IF FindUsername(username) = 0 /\ FindEmail(email) = 0
       THEN users' = Append(users, UserCreate(username, password, email, salt))
       ELSE users' = users
    /\ last' = [op |-> "signup_post", outcome |-> "/", username |-> username,
                password |-> password, email |-> email]
    /\ UNCHANGED <<questions, answers, scores, games, questionresults, cookie_user,
                   cookie_game, now, created, handled, tally>>

(* -------------------------------- Score ------------------------------- *)

\* the row Score.create inserts: VALUES(?,?,0,0)
ScoreCreate(user_id, category_id) ==
    [user_id |-> user_id, category_id |-> category_id, num_answered |-> 0,
     num_correct |-> 0]

\* the rows of scores for a user and a category
ScoreRows(user_id, category_id) ==
    {i \in 1..Len(scores) :
        scores[i].user_id = user_id /\ scores[i].category_id = category_id}

\* score.update_score(correct_answer) on the Score object of row i: the UPDATE
\* writes the object's counters to every row of its user and category
UpdateScore(i, correct_answer) ==
    LET num_correct == scores[i].num_correct + (IF correct_answer THEN 1 ELSE 0)
        num_answered == scores[i].num_answered + 1
    IN  [j \in 1..Len(scores) |->
            IF j \in ScoreRows(scores[i].user_id, scores[i].category_id)
            THEN [scores[j] EXCEPT !.num_answered = num_answered,
                                   !.num_correct = num_correct]
            ELSE scores[j]]

\* a call Score.create(user_id, category_id)
score_create(user_id, category_id) ==
    /\ scores' = Append(scores, ScoreCreate(user_id, category_id))
    /\ last' = [op |-> "Score.create", user_id |-> user_id]
    /\ UNCHANGED <<users, questions, answers, games, questionresults, cookie_user,
                   cookie_game, now, created, handled, tally>>

\* a call score.update_score(correct_answer) on Score.find's object for row i
update_score(i, correct_answer) ==
    /\ scores' = UpdateScore(i, correct_answer)
    /\ tally' = tally + 1
    /\ last' = [op |-> "update_score", user_id |-> scores[i].user_id]
    /\ UNCHANGED <<users, questions, answers, games, questionresults, cookie_user,
                   cookie_game, now, created, handled>>

(* --------------------------- specifications --------------------------- *)

\* the store with the question bank loaded and nobody registered
InitAuth ==
    /\ users = <<>>
    /\ questions = BankQuestions
    /\ answers = BankAnswers
    /\ scores = <<>>
    /\ games = <<>>
    /\ questionresults = <<>>
    /\ cookie_user = 0
    /\ cookie_game = 0
    /\ now = 1
    /\ created = <<>>
    /\ handled = <<>>
    /\ tally = 0
    /\ last = [op |-> "none"]

\* the empty store, before any question is loaded or created
InitBank ==
    /\ users = <<>>
    /\ questions = <<>>
    /\ answers = <<>>
    /\ scores = <<>>
    /\ games = <<>>
    /\ questionresults = <<>>
    /\ cookie_user = 0
    /\ cookie_game = 0
    /\ now = 1
    /\ created = <<>>
    /\ handled = <<>>
    /\ tally = 0
    /\ last = [op |-> "none"]

\* the store after alice and bob signed up
InitSession ==
    /\ users = <<UserCreate("alice", "pw", "alice@x", "s1"),
                 UserCreate("bob", "hunter2", "bob@x", "s2")>>
    /\ questions = BankQuestions
    /\ answers = BankAnswers
    /\ scores = <<>>
    /\ games = <<>>
    /\ questionresults = <<>>
    /\ cookie_user = 0
    /\ cookie_game = 0
    /\ now = 1
    /\ created = <<>>
    /\ handled = <<>>
    /\ tally = 0
    /\ last = [op |-> "none"]

\* the store after alice and bob signed up and alice logged in
InitPlay ==
    /\ users = <<UserCreate("alice", "pw", "alice@x", "s1"),
                 UserCreate("bob", "hunter2", "bob@x", "s2")>>
    /\ questions = BankQuestions
    /\ answers = BankAnswers
    /\ scores = <<>>
    /\ games = <<>>
    /\ questionresults = <<>>
    /\ cookie_user = 1
    /\ cookie_game = 0
    /\ now = 1
    /\ created = <<>>
    /\ handled = <<>>
    /\ tally = 0
    /\ last = [op |-> "none"]

\* the answer ids a submit request may name: every answer and one that is none
AnswerIds == 1..(Len(BankAnswers) + 1)

Signup ==
    \E username \in Names \cup {Empty, None}, password \in Passwords \cup {Empty, None},
       email \in Names \cup {None}, salt \in Salts :
        /\ Len(users) < MaxUsers
        /\ signup_handler_post(username, password, email, salt)

Login ==
    \E username_email \in Names \cup {None}, password \in Passwords \cup {Empty} :
        login_handler_post(username_email, password)

SetPassword ==
    \E u \in 1..Len(users), new_password \in Passwords, salt \in Salts :
        set_password(u, new_password, salt)

NewGame ==
    \E has_fields \in BOOLEAN, category_id \in Categories, difficulty \in Difficulties :
        \E order \in Shuffles(Matching(category_id, difficulty)) :
            /\ Len(games) < MaxGames
            /\ game_handler(has_fields, category_id, difficulty, order)

CreateCall ==
    \E user_id \in 1..Len(users), category_id \in Categories,
       difficulty \in Difficulties, n \in 1..MaxN :
        \E order \in Shuffles(Matching(category_id, difficulty)) :
            /\ Len(games) < MaxGames
            /\ game_create_call(user_id, category_id, difficulty, n, order)

Submit == \E answer_id \in AnswerIds : submit_question_handler(answer_id)

LoadQuestion ==
    \E category_id \in Categories, difficulty \in LoaderDifficulties :
        /\ Len(questions) < MaxBank
        /\ load_question(category_id, difficulty)

LoadAddUser == load_add_user

CreateQuestion ==
    \E category_id \in Categories, count \in 0..MaxAnswers :
        /\ Len(questions) < MaxBank
        /\ create_question(category_id, count)

GetQuestion == \E question_index \in 0..MaxIndex : get_question_handler(question_index)

ScoreCreateCall ==
    \E user_id \in 1..Len(users), category_id \in Categories :
        /\ ScoreRows(user_id, category_id) = {}
        /\ Len(scores) < MaxScores
        /\ score_create(user_id, category_id)

UpdateScoreCall ==
    \E i \in 1..Len(scores), correct_answer \in BOOLEAN :
        /\ tally < MaxTally
        /\ update_score(i, correct_answer)

NextAuth ==
    \/ Signup
    \/ Login
    \/ SetPassword

NextGame ==
    \/ NewGame
    \/ CreateCall
    \/ Submit

NextPage ==
    \/ NewGame
    \/ Submit
    \/ GetQuestion

NextBank ==
    \/ LoadQuestion
    \/ LoadAddUser
    \/ CreateQuestion

NextSession ==
    \/ Login
    \/ NewGame
    \/ CreateCall
    \/ Submit

NextScore ==
    \/ NewGame
    \/ Submit
    \/ ScoreCreateCall
    \/ UpdateScoreCall

\* registration, login and password change
SpecAuth == InitAuth /\ [][NextAuth]_vars

\* the game flow of a logged in user, beside direct calls of Game.create
SpecGame == InitPlay /\ [][NextGame]_vars

\* the game flow of a logged in user beside requests for question pages
SpecPage == InitPlay /\ [][NextPage]_vars

\* the filling of the question bank: the dummy-data loader on the empty
\* store, and calls of Category.create_question
SpecBank == InitBank /\ [][NextBank]_vars

\* logins, game creations and submits of two registered users in one browser
SpecSession == InitSession /\ [][NextSession]_vars

\* the game flow beside direct calls of Score.create and Score.update_score
SpecScore == InitPlay /\ [][NextScore]_vars

(* ------------------------------- claims ------------------------------- *)

\* the last request was a submit that submit_question_handler handled
SubmitHandled(l) == l.op = "submit" /\ l.outcome = "handled"

\* the answer of a handled submit exists and is an answer of the asked question
Belongs(l) ==
    /\ l.question_id \in 1..Len(BankQuestions)
    /\ l.answer_id \in 1..Len(BankAnswers)
    /\ BankAnswers[l.answer_id].question_id = l.question_id

\* 1 for an answer flagged correct, 0 otherwise
Flag(answer_id) == IF BankAnswers[answer_id].correct = 1 THEN 1 ELSE 0

\* C1: a submit whose answer exists and belongs to the asked question adds
\* exactly one row to questionresults, the row (this game's id, the question
\* id, the game's user_id, the answer id, correct) with correct 1 for an answer
\* flagged correct and 0 otherwise, and submit_answer returns that correct.
C1_SubmitRecordsResult ==
    [][(SubmitHandled(last') /\ Belongs(last')) =>
          /\ questionresults' =
                Append(questionresults,
                       [game_id |-> last'.game_id,
                        question_id |-> last'.question_id,
                        user_id |-> created[last'.game_id].game.user_id,
                        answer_id |-> last'.answer_id,
                        correct |-> Flag(last'.answer_id)])
          /\ last'.correct = Flag(last'.answer_id)]_vars

\* C1's case: a correct and a wrong answer have been recorded, the last one
\* by the request just handled
C1_Witness ==
    /\ SubmitHandled(last) /\ Belongs(last)
    /\ \E i, j \in 1..Len(questionresults) :
          questionresults[i].correct = 1 /\ questionresults[j].correct = 0

\* the number of questions the game g was created with
NumQuestions(g) == Len(created[g].game.question_ids)

\* C2: every game's question_index is the number of submits handled for it,
\* so it grows by exactly 1 per handled submit; the game is at its end exactly
\* when k submits were handled, k its number of questions; and a handled
\* submit judged question_ids[question_index] of before the request and
\* redirects to /game/<new index> while the new index is below k, to
\* /post_game once it is k.
C2_LinearIndex ==
    /\ \A g \in 1..Len(games) :
          /\ games[g].c4 = handled[g]
          /\ GameFind(g).question_index = handled[g]
          /\ IsEnd(GameFind(g)) <=> handled[g] >= NumQuestions(g)
          /\ handled[g] <= NumQuestions(g)
    /\ SubmitHandled(last) =>
          LET g == last.game_id IN
          /\ last.question_id = created[g].game.question_ids[handled[g]]
          /\ last.question_index = handled[g]
          /\ IF handled[g] < NumQuestions(g)
             THEN last.redirect = "/game/" /\ last.redirect_index = handled[g]
             ELSE last.redirect = "/post_game"

\* C2's case: a game of two questions reached its end by its second submit,
\* beside another game that is not at its end
C2_Witness ==
    /\ SubmitHandled(last)
    /\ NumQuestions(last.game_id) = 2
    /\ handled[last.game_id] = 2
    /\ IsEnd(GameFind(last.game_id))
    /\ last.redirect = "/post_game"
    /\ \E h \in 1..Len(games) : ~IsEnd(GameFind(h))

\* C3: a handled submit of an answer that belongs to the asked question adds 1
\* to the question's questions_answered, adds 1 to its questions_correct and
\* to the game's score (the stored one, and the object's, which
\* game_nextquestion returns) exactly when the answer is correct, and leaves
\* every other game's score and every other question's counters alone.
C3_AggregateScoring ==
    [][(SubmitHandled(last') /\ Belongs(last')) =>
          LET g == last'.game_id
              q == last'.question_id
              c == Flag(last'.answer_id)
          IN  /\ questions'[q].questions_answered = questions[q].questions_answered + 1
              /\ questions'[q].questions_correct = questions[q].questions_correct + c
              /\ games'[g].c9 = games[g].c9 + c
              /\ last'.score = games[g].c9 + c
              /\ \A h \in 1..Len(games) : h # g => games'[h].c9 = games[h].c9
              /\ \A p \in 1..Len(questions) : p # q => questions'[p] = questions[p]]_vars

\* C3's case: the second game scored by a correct answer while the first
\* game holds a score of its own, and a wrong answer was counted too
C3_Witness ==
    /\ SubmitHandled(last) /\ Belongs(last)
    /\ last.game_id = 2 /\ last.correct = 1
    /\ games[1].c9 = 1 /\ games[2].c9 = 1
    /\ \E q \in 1..Len(questions) :
          questions[q].questions_correct < questions[q].questions_answered

\* C4 (as claimed): a handled submit of an answer that belongs to the asked
\* question, in a game of category c of a user who has a Score for c, adds 1 to
\* that Score's num_answered, and 1 to its num_correct exactly when the answer
\* is correct.
C4_ScoreTally ==
    [][(SubmitHandled(last') /\ Belongs(last')) =>
          LET u == created[last'.game_id].game.user_id
              c == created[last'.game_id].game.category_id
          IN  \A i \in 1..Len(scores) :
                 (scores[i].user_id = u /\ scores[i].category_id = c) =>
                    /\ scores'[i].num_answered = scores[i].num_answered + 1
                    /\ scores'[i].num_correct =
                          scores[i].num_correct + Flag(last'.answer_id)]_vars

\* the smaller of two numbers
Min(a, b) == IF a < b THEN a ELSE b

\* the number of questions of a category and a difficulty
NumMatching(category_id, difficulty) ==
    Cardinality({q \in 1..Len(questions) :
                    questions[q].category = category_id
                    /\ questions[q].difficulty = difficulty})

\* C5 (as claimed): every game Game.create(user_id, category_id, difficulty, n)
\* returned holds exactly n question ids.
C5_ExactlyN ==
    \A g \in 1..Len(created) : Len(created[g].game.question_ids) = created[g].n

\* C5 (amended): a game Game.create returned for n >= 1 holds min(n, m)
\* question ids, m >= 1 the number of questions of the category and the
\* difficulty: never more than n, and n when at least n questions match; the
\* stored game holds as many.
C5_AtMostN ==
    \A g \in 1..Len(created) :
        LET game == created[g].game
            m == NumMatching(game.category_id, game.difficulty)
        IN  /\ m >= 1
            /\ Len(game.question_ids) = Min(created[g].n, m)
            /\ Len(GameFind(g).question_ids) = Min(created[g].n, m)

\* C5's case: the slice cut the matching questions down to n, and another
\* game got fewer than its n because fewer questions match
C5_Witness ==
    \E g, h \in 1..Len(created) :
        /\ Len(created[g].game.question_ids) = created[g].n
        /\ created[g].n < NumMatching(created[g].game.category_id,
                                      created[g].game.difficulty)
        /\ Len(created[h].game.question_ids) < created[h].n

\* C6 (as claimed): Game.find(game_id=g.id) returns, at any later point, a game
\* with the user_id, the question_ids (in their order), the category_id and
\* the difficulty of the game g that Game.create returned.
C6_FindReturnsCreated ==
    \A g \in 1..Len(created) :
        /\ GameFind(g).user_id = created[g].game.user_id
        /\ GameFind(g).question_ids = created[g].game.question_ids
        /\ GameFind(g).category_id = created[g].game.category_id
        /\ GameFind(g).difficulty = created[g].game.difficulty

\* C7: after user.set_password(p) the user's check_login(p) is true and
\* check_login(q) is false for every other password q, those accepted before
\* the call included; so is it when p is a password set before.
C7_SetPassword ==
    last.op = "set_password" =>
        /\ CheckLogin(last.user_id, last.password)
        /\ \A q \in (Passwords \cup last.accepted) \ {last.password} :
              ~CheckLogin(last.user_id, q)

\* C7's case: the password was changed from another one that was accepted
C7_Witness ==
    /\ last.op = "set_password"
    /\ last.accepted # {}
    /\ last.password \notin last.accepted

\* C8 (as claimed): a game at its end holds a time_completed that is set and
\* not before time_started; a game not at its end holds time_completed 0.
C8_TimeCompleted ==
    \A g \in 1..Len(games) :
        LET game == GameFind(g)
        IN  IF IsEnd(game)
            THEN game.time_completed # 0 /\ game.time_completed >= game.time_started
            ELSE game.time_completed = 0

\* C9 (as claimed, for a name no other account carries): a registered user
\* who posted their own username or their own email with their correct
\* password ends the request with the user_id cookie holding their id,
\* whatever user_id cookie the request came with.
C9_LoginSetsCookie ==
    (last.op = "login_post" /\ last.username \notin {None, Empty}) =>
        \A u \in 1..Len(users) :
            (/\ last.username \in {users[u].username, users[u].email}
             /\ CheckLogin(u, last.password)
             /\ \A v \in 1..Len(users) :
                   v # u => last.username \notin {users[v].username, users[v].email})
            => cookie_user = u

\* C10 (as claimed): a failed login renders the login page with error_message
\* 'Password/Username is incorrect' when an account has the name as username
\* or email, "User doesn't exist" when none has, and never with an empty one.
C10_LoginError ==
    (last.op = "login_post" /\ last.outcome = "login page") =>
        /\ last.error_message # ""
        /\ last.error_message =
              IF \E u \in 1..Len(users) :
                    last.username \in {users[u].username, users[u].email}
              THEN "Password/Username is incorrect"
              ELSE "User doesn't exist"

\* Game.create was called and returned None
CreatedNone(l) ==
    \/ l.op = "Game.create" /\ l.outcome = "None"
    \/ l.op = "game_create" /\ l.outcome = "no questions"

\* Game.create was called and returned a game
CreatedGame(l) ==
    \/ l.op = "Game.create" /\ l.outcome = "game"
    \/ l.op = "game_create" /\ l.outcome = "/game/0"

\* C11: a Game.create that returned None found no question of the category and
\* the difficulty, inserted no row and left the game_id cookie alone; one that
\* returned a game found at least one and inserted one row, and the game's
\* question_ids (of the object returned and of the row) are pairwise distinct
\* questions of that category and difficulty, min(n, number of matching
\* questions) of them, with question_index and score 0.
C11_ShuffleAndSlice ==
    [][/\ CreatedNone(last') =>
             /\ NumMatching(last'.category_id, last'.difficulty) = 0
             /\ games' = games
             /\ cookie_game' = cookie_game
       /\ CreatedGame(last') =>
             LET g == last'.game_id
                 m == NumMatching(last'.category_id, last'.difficulty)
                 ids == created'[g].game.question_ids
                 row == GameOfRow(games'[g])
             IN  /\ m >= 1
                 /\ g = Len(games) + 1 /\ Len(games') = g
                 /\ SubSeq(games', 1, Len(games)) = games
                 /\ row.question_ids = ids
                 /\ \A i, j \in 1..Len(ids) : i # j => ids[i] # ids[j]
                 /\ \A i \in 1..Len(ids) :
                       /\ ids[i] \in 1..Len(questions)
                       /\ questions[ids[i]].category = last'.category_id
                       /\ questions[ids[i]].difficulty = last'.difficulty
                 /\ Len(ids) = Min(created'[g].n, m)
                 /\ row.question_index = 0 /\ row.score = 0
                 /\ created'[g].game.question_index = 0
                 /\ created'[g].game.score = 0]_vars

\* C11's case: game_handler got None for a category and difficulty without
\* questions and kept the game_id cookie of the two-question game made before
C11_Witness ==
    /\ last.op = "game_create" /\ last.outcome = "no questions"
    /\ cookie_game = 1
    /\ Len(games) = 1
    /\ Len(GameFind(1).question_ids) = 2

\* the signup request l lacks a username or a password
SignupIncomplete(l) ==
    \/ l.username = None \/ l.username = Empty
    \/ l.password = None \/ l.password = Empty

\* C12 as stated: no two users share a username, no two users share the value
\* of their email column, and a signup request lacking a username or a
\* password, or naming a username or an email column value a user already
\* has, leaves the users table unchanged.
C12_SignupUnique ==
    /\ [](\A u, v \in 1..Len(users) :
             u # v => /\ users[u].username # users[v].username
                      /\ users[u].email # users[v].email)
    /\ [][last'.op = "signup_post" =>
             ((\/ SignupIncomplete(last')
               \/ \E u \in 1..Len(users) : users[u].username = last'.username
               \/ \E u \in 1..Len(users) : users[u].email = last'.email)
              => users' = users)]_vars

\* what signup does keep: no two users share a username, no two users who
\* signed up with an email share it, and a signup request lacking a username
\* or a password, or naming a username or an email a user already has, leaves
\* the users table unchanged
SignupUniqueGiven ==
    /\ [](\A u, v \in 1..Len(users) :
             u # v => /\ users[u].username # users[v].username
                      /\ (users[u].email # None => users[u].email # users[v].email))
    /\ [][last'.op = "signup_post" =>
             ((\/ SignupIncomplete(last')
               \/ \E u \in 1..Len(users) : users[u].username = last'.username
               \/ \E u \in 1..Len(users) :
                     last'.email # None /\ users[u].email = last'.email)
              => users' = users)]_vars

\* a complete signup request with a fresh username and the email of the one
\* user there is was answered and no user was added
SignupEmailInUse ==
    /\ Len(users) = 1
    /\ last.op = "signup_post"
    /\ ~SignupIncomplete(last)
    /\ last.username # users[1].username
    /\ last.email # None /\ last.email = users[1].email

\* C13: get_question_handler answers every request with a page or an error
\* page: "You aren't in a game!" without a game_id cookie, "Could not handle
\* that question!" for a game_id of no game, and "That question doesn't
\* exist!" for an index at or past the number of the game's questions.
C13_QuestionPageOrError ==
    last.op = "get_question" =>
        /\ last.outcome \in {"page", "error"}
        /\ last.game_id = 0 =>
              last.outcome = "error" /\ last.message = "You aren't in a game!"
        /\ (last.game_id # 0 /\ last.game_id \notin 1..Len(games)) =>
              last.outcome = "error" /\ last.message = "Could not handle that question!"
        /\ (last.game_id \in 1..Len(games)
              /\ last.question_index >= NumQuestions(last.game_id)) =>
              last.outcome = "error" /\ last.message = "That question doesn't exist!"

\* the answers rows of question q
AnswersOf(q) == {a \in 1..Len(answers) : answers[a].question_id = q}

\* C14: every question in the questions table that was given answers has
\* exactly one answer flagged correct (1) and all its other answers flagged
\* incorrect (0), whether Category.create_question or the dummy-data loader
\* inserted it.
C14_OneCorrectAnswer ==
    \A q \in 1..Len(questions) :
        AnswersOf(q) # {} =>
            /\ Cardinality({a \in AnswersOf(q) : answers[a].correct = 1}) = 1
            /\ \A a \in AnswersOf(q) : answers[a].correct \in {0, 1}

\* the part of C14 that is about Category.create_question, which holds: the
\* question it just made has its first answer flagged 1 and the others 0
CreateQuestionOneCorrect ==
    [][(last'.op = "create_question" /\ Len(answers') > Len(answers)) =>
          LET q == last'.question_id
              first == Len(answers) + 1
          IN  /\ answers'[first].question_id = q /\ answers'[first].correct = 1
              /\ \A a \in (first + 1)..Len(answers') :
                    answers'[a].question_id = q /\ answers'[a].correct = 0]_vars

\* the questionresults rows of game g, and those of them with correct = 1
ResultsOf(g) == {i \in 1..Len(questionresults) : questionresults[i].game_id = g}
CorrectResultsOf(g) == {i \in ResultsOf(g) : questionresults[i].correct = 1}

\* C15: for every game, stored score = number of its QuestionResults with
\* correct = 1 <= number of its QuestionResults <= question_index <= number of
\* its question_ids, whatever was submitted: repeated submits, answers of
\* another question, submits after the end.
C15_GameCounters ==
    \A g \in 1..Len(games) :
        LET game == GameFind(g) IN
        /\ game.score = Cardinality(CorrectResultsOf(g))
        /\ Cardinality(CorrectResultsOf(g)) <= Cardinality(ResultsOf(g))
        /\ Cardinality(ResultsOf(g)) <= game.question_index
        /\ game.question_index <= Len(game.question_ids)

\* C15's case: a submit after the end of a game of two questions, one of them
\* answered by a wrong answer of its own and the other by an answer of another
\* question, beside a game that scored
C15_Witness ==
    /\ last.op = "submit" /\ last.outcome = "IndexError"
    /\ LET game == GameFind(last.game_id) IN
          /\ Len(game.question_ids) = 2 /\ game.question_index = 2
          /\ Cardinality(ResultsOf(game.id)) = 1
          /\ game.score = 0
    /\ \E h \in 1..Len(games) : GameFind(h).score = 1

\* C16: every request that submit_question_handler handled, and that so
\* changed a game's question_index, score or QuestionResults, changed a game
\* whose user_id is the user of the request's user_id cookie.
C16_OwnGameOnly ==
    [][(SubmitHandled(last') /\ <<games, questionresults>>' # <<games, questionresults>>)
          => GameFind(last'.game_id).user_id = cookie_user]_vars

====
